---- MODULE Spec2Model ----
(***************************************************************************)
(* A model of the caching DNS resolver (package main of                    *)
(* dns-resolver-golang): normalizeDomain, the dnsCache map behind          *)
(* cacheMutex, resolveDNS with its five lookups, resolveBatch, which       *)
(* starts one goroutine per line of the input file and joins them with a   *)
(* sync.WaitGroup, reverseDNS, and main, which selects one of them from    *)
(* os.Args. The standalone resolver of src/main.go is modelled next to it  *)
(* (the Sa actions).                                                       *)
(*                                                                         *)
(* The Lookup Service (package net) and the clock (time.Now) are the       *)
(* environment: every lookup nondeterministically fails or returns one of  *)
(* a few replies, and time advances between any two steps.                 *)
(***************************************************************************)
EXTENDS Integers, Sequences, FiniteSets, TLC

\* ------------------------------------------------------------------ bounds

\* Lines of the batch input file.
MaxLines == 2
\* Lookups the Lookup Service answers without an error in one run of Spec;
\* every further lookup fails.
MaxAnswers == 1
\* The clock stops at MaxTime (minutes); it advances TimeStep minutes at a time.
MaxTime == 15
TimeStep == 5

\* 10 * time.Minute, in minutes.
TTL == 10

\* --------------------------------------------------------------- the inputs

\* Lines a batch file may hold. "{fc}" stands for the one character U+00FC.
\* A blank line, a name with a character outside ASCII, the same name in its
\* ASCII form, and a name idna.ToASCII rejects.
Inputs == {"", "b{fc}cher.de", "xn--bcher-kva.de", "xn--{fc}.de"}

Categories == {"IP", "CNAME", "MX", "TXT", "NS"}

\* The lookups of the standalone resolver.
SaCategories == {"IP", "CNAME", "MX"}

V4Addrs == {"192.0.2.1"}
V6Addrs == {"2001:db8::1"}

\* What each lookup may return when it does not fail.
IPValues == {<<>>, <<"192.0.2.1">>, <<"2001:db8::1">>, <<"192.0.2.1", "2001:db8::1">>}
CNAMEValues == {"example.com."}
MXValues == {<<>>, <<[Host |-> "mail.example.com.", Pref |-> 10]>>}
TXTValues == {<<>>, <<"v=spf1 -all">>}
NSValues == {<<>>, <<[Host |-> "ns1.example.com."]>>}

\* ---------------------------------------------------------------- the state

VARIABLES
  lines,       \* the lines of the batch input file
  coPc,        \* resolveBatch: "notcalled", "open", "scan", "wait", "returned",
               \* "fatal"
  scanned,     \* lines the scanner has returned so far (= goroutines started)
  wg,          \* the WaitGroup's counter
  now,         \* the clock, in minutes
  dnsCache,    \* normalized domain -> [records, expiry]
  cacheMutex,  \* 0 when free, else the goroutine holding it
  answers,     \* successful replies the Lookup Service has left
  pc,          \* goroutine -> its position in resolveDNS
  domain,      \* goroutine -> resolveDNS's domain variable
  records,     \* goroutine -> resolveDNS's records map
  found,       \* goroutine -> what getCachedResult reported
  ret,         \* goroutine -> the map resolveDNS returned (Nil before)
  reply,       \* goroutine -> category -> what the Lookup Service replied
  calls,       \* goroutine -> category -> lookups made
  lastPut,     \* normalized domain -> the latest cacheResult: [by, at], the
               \* goroutine that ran it and its time.Now() (history)
  args,        \* os.Args, indexed from 0
  mainPc,      \* main: "main" before its switch, then the branch it took:
               \* "usage", "soon", "resolveDNS", "reverseDNS", "resolveBatch",
               \* "invalid"
  addrReply,   \* what the Lookup Service replied to reverseDNS's lookup
  addrCalls,   \* reverse lookups made
  hosts,       \* the host names reverseDNS has printed
  saPc,        \* src/main.go, the standalone resolver: "main", "LookupIP",
               \* "LookupCNAME", "LookupMX", "returned", "exit"
  saReply,     \* its lookups: category -> what the Lookup Service replied
  saOut        \* the records it has printed

vars == <<lines, coPc, scanned, wg, now, dnsCache, cacheMutex, answers,
          pc, domain, records, found, ret, reply, calls, lastPut,
          args, mainPc, addrReply, addrCalls, hosts, saPc, saReply, saOut>>

\* The variables of the standalone resolver.
saVars == <<saPc, saReply, saOut>>

\* The variables of main and reverseDNS, and of the standalone resolver.
mainVars == <<args, mainPc, addrReply, addrCalls, hosts, saVars>>

Tasks == 1..MaxLines

\* A nil map: no key of a records map is "nil".
Nil == [nil |-> TRUE]

\* What the Lookup Service has replied to a lookup: nothing yet, an error,
\* or a value.
Pending == [state |-> "pending"]
Failed == [state |-> "err"]
Ok(v) == [state |-> "ok", val |-> v]
IsErr(r) == r.state = "err"

\* A map with no key (make(map[string][]string), and the empty dnsCache).
EmptyMap == <<>>

\* ------------------------------------------------------------- map helpers

\* m[k] of a Go map: the zero value (a nil slice) when k is no key.
Index(m, k) == IF k \in DOMAIN m THEN m[k] ELSE <<>>

\* m[k] = v
Store(m, k, v) == [x \in (DOMAIN m) \cup {k} |-> IF x = k THEN v ELSE m[x]]

\* ------------------------------------------------------------ normalizeDomain

\* idna.ToASCII on the inputs of the model: a label with a character
\* outside ASCII is punycode-encoded behind "xn--"; a label that already
\* starts with "xn--" is decoded and encoded again, and one that does not
\* decode is an error (the string returned with it is not the input).
ToASCII(s) ==
  CASE s = "b{fc}cher.de" -> [out |-> "xn--bcher-kva.de", err |-> FALSE]
    [] s = "xn--{fc}.de"  -> [out |-> "xn--xn---eoa.de", err |-> TRUE]
    [] OTHER              -> [out |-> s, err |-> FALSE]

\* Mutant of normalizeDomain: the string idna.ToASCII returned is used even
\* when it came with an error.
normalizeDomainEncoded(d) == ToASCII(d).out

normalizeDomain(d) ==
  LET r == ToASCII(d)
  IN  IF r.err THEN d ELSE r.out

\* ------------------------------------------------------------ the cache

\* The entry cacheResult stores at time tnow.
NewEntry(recs, tnow) == [records |-> recs, expiry |-> tnow + TTL]

\* Mutant of Expired: an entry counts as expired at its expiry already.
ExpiredAtExpiry(entry, tnow) == tnow >= entry.expiry

\* time.Now().After(entry.expiry)
Expired(entry, tnow) == tnow > entry.expiry

\* Mutant of getCachedResult: the expiry is not looked at.
getCachedResultIgnoreExpiry(cache, d, tnow) ==
  IF d \notin DOMAIN cache
  THEN [records |-> Nil, found |-> FALSE, cache |-> cache]
  ELSE [records |-> cache[d].records, found |-> TRUE, cache |-> cache]

\* Mutant of getCachedResult: an expired entry is deleted when it is read.
getCachedResultEvict(cache, d, tnow) ==
  IF d \notin DOMAIN cache
  THEN [records |-> Nil, found |-> FALSE, cache |-> cache]
  ELSE IF tnow > cache[d].expiry
       THEN [records |-> Nil, found |-> FALSE,
             cache |-> [x \in (DOMAIN cache) \ {d} |-> cache[x]]]
       ELSE [records |-> cache[d].records, found |-> TRUE, cache |-> cache]

\* Mutant of getCachedResult: a hit renews the entry's expiry.
getCachedResultRenew(cache, d, tnow) ==
  IF d \notin DOMAIN cache \/ tnow > cache[d].expiry
  THEN [records |-> Nil, found |-> FALSE, cache |-> cache]
  ELSE [records |-> cache[d].records, found |-> TRUE,
        cache |-> [cache EXCEPT ![d].expiry = tnow + TTL]]

\* The body of getCachedResult, run at time tnow: (records, found), and
\* the map afterwards, which it only reads.
getCachedResult(cache, d, tnow) ==
  IF d \notin DOMAIN cache \/ Expired(cache[d], tnow)
  THEN [records |-> Nil, found |-> FALSE, cache |-> cache]
  ELSE [records |-> cache[d].records, found |-> TRUE, cache |-> cache]

\* Mutant of cacheResult: a pass in which nothing resolved is not cached.
cacheResultNonEmpty(cache, d, recs, tnow) ==
  IF recs = EmptyMap THEN cache
  ELSE [x \in (DOMAIN cache) \cup {d} |->
          IF x = d THEN [records |-> recs, expiry |-> tnow + TTL] ELSE cache[x]]

\* Mutant of cacheResult: an entry that has not expired is kept.
cacheResultKeepFirst(cache, d, recs, tnow) ==
  IF d \in DOMAIN cache /\ tnow <= cache[d].expiry THEN cache
  ELSE [x \in (DOMAIN cache) \cup {d} |->
          IF x = d THEN [records |-> recs, expiry |-> tnow + TTL] ELSE cache[x]]

\* The body of cacheResult, run at time tnow: the map afterwards.
cacheResult(cache, d, recs, tnow) == Store(cache, d, NewEntry(recs, tnow))

\* ------------------------------------------------- aggregating the replies

To4(ip) == ip \in V4Addrs

\* The loop over ips: each address is appended under "A" or "AAAA".
RECURSIVE AddIPs(_, _)
AddIPs(recs, ips) ==
  IF ips = <<>> THEN recs
  ELSE LET ip  == Head(ips)
           key == IF To4(ip) THEN "A" ELSE "AAAA"
       IN  AddIPs(Store(recs, key, Append(Index(recs, key), ip)), Tail(ips))

SetCNAME(recs, cname) == Store(recs, "CNAME", <<cname>>)

\* fmt.Sprintf("%s (Priority: %d)", mx.Host, mx.Pref)
FormatMX(mx) == mx.Host \o " (Priority: " \o ToString(mx.Pref) \o ")"

RECURSIVE AddMX(_, _)
AddMX(recs, mxs) ==
  IF mxs = <<>> THEN recs
  ELSE AddMX(Store(recs, "MX", Append(Index(recs, "MX"), FormatMX(Head(mxs)))),
             Tail(mxs))

SetTXT(recs, txts) == Store(recs, "TXT", txts)

RECURSIVE AddNS(_, _)
AddNS(recs, nss) ==
  IF nss = <<>> THEN recs
  ELSE AddNS(Store(recs, "NS", Append(Index(recs, "NS"), Head(nss).Host)),
             Tail(nss))

\* ------------------------------------------------------ the Lookup Service

\* The replies to a lookup whose successful values are vals: an error, or,
\* while the service has answers left, one of vals.
Replies(vals) ==
  {Failed} \cup {Ok(v) : v \in IF answers > 0 THEN vals ELSE {}}

\* One lookup of category c by goroutine t returned r; the goroutine goes on
\* to next with its records map now recs.
Looked(t, c, r, recs, next) ==
  /\ records' = [records EXCEPT ![t] = recs]
  /\ reply' = [reply EXCEPT ![t][c] = r]
  /\ calls' = [calls EXCEPT ![t][c] = @ + 1]
  /\ answers' = IF IsErr(r) THEN answers ELSE answers - 1
  /\ pc' = [pc EXCEPT ![t] = next]
  /\ UNCHANGED <<lines, coPc, scanned, wg, now, dnsCache, cacheMutex,
                 domain, found, ret, lastPut, mainVars>>

\* ---------------------------------------------------------------- Init

NoReply == [c \in Categories |-> Pending]
NoCalls == [c \in Categories |-> 0]

\* os.Args as the function Go indexes from 0.
OsArgs(s) == [i \in 0..(Len(s) - 1) |-> s[i + 1]]

\* The state of the resolver before anything was resolved.
InitResolver ==
  /\ scanned = 0
  /\ wg = 0
  /\ now = 0
  /\ dnsCache = EmptyMap
  /\ cacheMutex = 0
  /\ pc = [t \in Tasks |-> "idle"]
  /\ domain = [t \in Tasks |-> ""]
  /\ records = [t \in Tasks |-> Nil]
  /\ found = [t \in Tasks |-> FALSE]
  /\ ret = [t \in Tasks |-> Nil]
  /\ reply = [t \in Tasks |-> NoReply]
  /\ calls = [t \in Tasks |-> NoCalls]
  /\ lastPut = EmptyMap
  /\ addrReply = Pending
  /\ addrCalls = 0
  /\ hosts = <<>>
  /\ saPc = "main"
  /\ saReply = [c \in SaCategories |-> Pending]
  /\ saOut = <<>>

\* main has called resolveBatch.
InitTasks ==
  /\ args = OsArgs(<<"dns-resolver", "domains", "--file">>)
  /\ mainPc = "resolveBatch"
  /\ coPc = "open"
  /\ InitResolver

Files(n) == UNION {[1..k -> Inputs] : k \in 0..n}

Init ==
  /\ lines \in Files(MaxLines)
  /\ answers = MaxAnswers
  /\ InitTasks

\* ------------------------------------------------------------ resolveBatch

\* os.Open fails: log.Fatalf ends the process.
OpenFail ==
  /\ coPc = "open"
  /\ coPc' = "fatal"
  /\ UNCHANGED <<lines, scanned, wg, now, dnsCache, cacheMutex, answers,
                 pc, domain, records, found, ret, reply, calls, lastPut, mainVars>>

OpenOk ==
  /\ coPc = "open"
  /\ coPc' = "scan"
  /\ UNCHANGED <<lines, scanned, wg, now, dnsCache, cacheMutex, answers,
                 pc, domain, records, found, ret, reply, calls, lastPut, mainVars>>

\* scanner.Scan() returns a line: wg.Add(1) and the go statement.
ScanLine ==
  /\ coPc = "scan"
  /\ scanned < Len(lines)
  /\ scanned' = scanned + 1
  /\ wg' = wg + 1
  /\ pc' = [pc EXCEPT ![scanned + 1] = "resolveDNS"]
  /\ domain' = [domain EXCEPT ![scanned + 1] = lines[scanned + 1]]
  /\ UNCHANGED <<lines, coPc, now, dnsCache, cacheMutex, answers,
                 records, found, ret, reply, calls, lastPut, mainVars>>

\* scanner.Scan() returns false at the end of the file.
ScanEOF ==
  /\ coPc = "scan"
  /\ scanned = Len(lines)
  /\ coPc' = "wait"
  /\ UNCHANGED <<lines, scanned, wg, now, dnsCache, cacheMutex, answers,
                 pc, domain, records, found, ret, reply, calls, lastPut, mainVars>>

\* scanner.Scan() returns false on a read error, which the loop does not
\* tell from the end of the file.
ScanError ==
  /\ coPc = "scan"
  /\ scanned < Len(lines)
  /\ coPc' = "wait"
  /\ UNCHANGED <<lines, scanned, wg, now, dnsCache, cacheMutex, answers,
                 pc, domain, records, found, ret, reply, calls, lastPut, mainVars>>

\* Mutant of WaitReturns: the join lets one goroutine go.
WaitReturnsEarly == wg <= 1

\* wg.Wait() returns.
WaitReturns == wg = 0

Wait ==
  /\ coPc = "wait"
  /\ WaitReturns
  /\ coPc' = "returned"
  /\ UNCHANGED <<lines, scanned, wg, now, dnsCache, cacheMutex, answers,
                 pc, domain, records, found, ret, reply, calls, lastPut, mainVars>>

\* -------------------------------------------------------------- resolveDNS

\* Mutant of Lock: the mutex is taken without waiting for it.
LockNoWait(t) == cacheMutex' = t

\* cacheMutex.Lock()
Lock(t) ==
  /\ cacheMutex = 0
  /\ cacheMutex' = t

\* Mutant of Unlock: the deferred Unlock is missing.
UnlockMissing(t) == cacheMutex' = cacheMutex

\* cacheMutex.Unlock(), deferred
Unlock(t) == cacheMutex' = 0

\* normalizeDomain, then getCachedResult up to its cacheMutex.Lock().
GetLock(t) ==
  /\ pc[t] = "resolveDNS"
  /\ Lock(t)
  /\ domain' = [domain EXCEPT ![t] = normalizeDomain(@)]
  /\ pc' = [pc EXCEPT ![t] = "getCachedResult"]
  /\ UNCHANGED <<lines, coPc, scanned, wg, now, dnsCache, answers,
                 records, found, ret, reply, calls, lastPut, mainVars>>

\* Mutant of GetRead: on a miss the new records map is put into dnsCache
\* at once, before the lookups fill it.
GetReadReserves(t) ==
  /\ pc[t] = "getCachedResult"
  /\ LET got == getCachedResult(dnsCache, domain[t], now)
     IN  /\ found' = [found EXCEPT ![t] = got.found]
         /\ IF got.found
            THEN /\ ret' = [ret EXCEPT ![t] = got.records]
                 /\ pc' = [pc EXCEPT ![t] = "printRecords"]
                 /\ dnsCache' = got.cache
                 /\ UNCHANGED records
            ELSE /\ records' = [records EXCEPT ![t] = EmptyMap]
                 /\ pc' = [pc EXCEPT ![t] = "LookupIP"]
                 /\ dnsCache' = Store(got.cache, domain[t],
                                      [records |-> EmptyMap, expiry |-> now + TTL])
                 /\ UNCHANGED ret
  /\ cacheMutex' = 0
  /\ UNCHANGED <<lines, coPc, scanned, wg, now, answers,
                 domain, reply, calls, lastPut, mainVars>>

\* The rest of getCachedResult; on a hit resolveDNS returns the cached map,
\* on a miss it makes its records map and goes to the first lookup.
GetRead(t) ==
  /\ pc[t] = "getCachedResult"
  /\ LET got == getCachedResult(dnsCache, domain[t], now)
     IN  /\ found' = [found EXCEPT ![t] = got.found]
         /\ IF got.found
            THEN /\ ret' = [ret EXCEPT ![t] = got.records]
                 /\ pc' = [pc EXCEPT ![t] = "printRecords"]
                 /\ UNCHANGED records
            ELSE /\ records' = [records EXCEPT ![t] = EmptyMap]
                 /\ pc' = [pc EXCEPT ![t] = "LookupIP"]
                 /\ UNCHANGED ret
         /\ dnsCache' = got.cache
  /\ Unlock(t)
  /\ UNCHANGED <<lines, coPc, scanned, wg, now, answers,
                 domain, reply, calls, lastPut, mainVars>>

\* Mutant of LookupIP: a failed address lookup ends resolveDNS at once.
LookupIPReturns(t) ==
  /\ pc[t] = "LookupIP"
  /\ \E r \in Replies(IPValues) :
       /\ reply' = [reply EXCEPT ![t]["IP"] = r]
       /\ calls' = [calls EXCEPT ![t]["IP"] = @ + 1]
       /\ answers' = IF IsErr(r) THEN answers ELSE answers - 1
       /\ IF IsErr(r)
          THEN /\ ret' = [ret EXCEPT ![t] = records[t]]
               /\ pc' = [pc EXCEPT ![t] = "printRecords"]
               /\ UNCHANGED records
          ELSE /\ records' = [records EXCEPT ![t] = AddIPs(@, r.val)]
               /\ pc' = [pc EXCEPT ![t] = "LookupCNAME"]
               /\ UNCHANGED ret
  /\ UNCHANGED <<lines, coPc, scanned, wg, now, dnsCache, cacheMutex,
                 domain, found, lastPut, mainVars>>

LookupIP(t) ==
  /\ pc[t] = "LookupIP"
  /\ \E r \in Replies(IPValues) :
       Looked(t, "IP", r, IF IsErr(r) THEN records[t] ELSE AddIPs(records[t], r.val),
              "LookupCNAME")

LookupCNAME(t) ==
  /\ pc[t] = "LookupCNAME"
  /\ \E r \in Replies(CNAMEValues) :
       Looked(t, "CNAME", r,
              IF IsErr(r) THEN records[t] ELSE SetCNAME(records[t], r.val),
              "LookupMX")

\* Mutant of LookupMX: after a failed MX lookup the TXT lookup is left out.
LookupMXSkipsTXT(t) ==
  /\ pc[t] = "LookupMX"
  /\ \E r \in Replies(MXValues) :
       Looked(t, "MX", r, IF IsErr(r) THEN records[t] ELSE AddMX(records[t], r.val),
              IF IsErr(r) THEN "LookupNS" ELSE "LookupTXT")

LookupMX(t) ==
  /\ pc[t] = "LookupMX"
  /\ \E r \in Replies(MXValues) :
       Looked(t, "MX", r, IF IsErr(r) THEN records[t] ELSE AddMX(records[t], r.val),
              "LookupTXT")

LookupTXT(t) ==
  /\ pc[t] = "LookupTXT"
  /\ \E r \in Replies(TXTValues) :
       Looked(t, "TXT", r, IF IsErr(r) THEN records[t] ELSE SetTXT(records[t], r.val),
              "LookupNS")

LookupNS(t) ==
  /\ pc[t] = "LookupNS"
  /\ \E r \in Replies(NSValues) :
       Looked(t, "NS", r, IF IsErr(r) THEN records[t] ELSE AddNS(records[t], r.val),
              "cacheResult")

\* cacheResult up to its cacheMutex.Lock().
PutLock(t) ==
  /\ pc[t] = "cacheResult"
  /\ Lock(t)
  /\ pc' = [pc EXCEPT ![t] = "cacheStore"]
  /\ UNCHANGED <<lines, coPc, scanned, wg, now, dnsCache, answers,
                 domain, records, found, ret, reply, calls, lastPut, mainVars>>

\* The rest of cacheResult, and resolveDNS returns records.
PutStore(t) ==
  /\ pc[t] = "cacheStore"
  /\ dnsCache' = cacheResult(dnsCache, domain[t], records[t], now)
  /\ lastPut' = Store(lastPut, domain[t], [by |-> t, at |-> now])
  /\ Unlock(t)
  /\ ret' = [ret EXCEPT ![t] = records[t]]
  /\ pc' = [pc EXCEPT ![t] = "printRecords"]
  /\ UNCHANGED <<lines, coPc, scanned, wg, now, answers,
                 domain, records, found, reply, calls, mainVars>>

\* printRecords, then the deferred wg.Done().
PrintDone(t) ==
  /\ mainPc = "resolveBatch"
  /\ pc[t] = "printRecords"
  /\ pc' = [pc EXCEPT ![t] = "done"]
  /\ wg' = wg - 1
  /\ UNCHANGED <<lines, coPc, scanned, now, dnsCache, cacheMutex, answers,
                 domain, records, found, ret, reply, calls, lastPut, mainVars>>

\* One step of goroutine t.
Step(t) ==
  \/ GetLock(t)
  \/ GetRead(t)
  \/ LookupIP(t)
  \/ LookupCNAME(t)
  \/ LookupMX(t)
  \/ LookupTXT(t)
  \/ LookupNS(t)
  \/ PutLock(t)
  \/ PutStore(t)
  \/ PrintDone(t)

\* ------------------------------------------------------------------ time

\* main has returned, or log.Fatalf has ended the process.
MainReturned ==
  CASE mainPc = "main"         -> FALSE
    [] mainPc = "resolveDNS"   -> \A t \in Tasks : pc[t] \in {"idle", "done"}
    [] mainPc = "reverseDNS"   -> addrReply # Pending
    [] mainPc = "resolveBatch" -> coPc \in {"fatal", "returned"}
    [] OTHER                   -> TRUE

Tick ==
  /\ now + TimeStep <= MaxTime
  /\ ~MainReturned
  /\ now' = now + TimeStep
  /\ UNCHANGED <<lines, coPc, scanned, wg, dnsCache, cacheMutex, answers,
                 pc, domain, records, found, ret, reply, calls, lastPut, mainVars>>

\* ------------------------------------------------------- the specifications

Batch == OpenFail \/ OpenOk \/ ScanLine \/ ScanEOF \/ ScanError \/ Wait

Next == Batch \/ Tick \/ \E t \in Tasks : Step(t)

\* Every interleaving of resolveBatch and its goroutines.
Spec == Init /\ [][Next]_vars

\* The goroutines run one after the other, in the order of the lines: the
\* schedule in which resolveDNS is called again only after it has returned.
InOrder(t) == \A u \in Tasks : u < t => pc[u] = "done"

NextSeq ==
  \/ Batch
  \/ Tick
  \/ \E t \in Tasks :
       \/ InOrder(t) /\ GetLock(t)
       \/ InOrder(t) /\ GetRead(t)
       \/ InOrder(t) /\ LookupIP(t)
       \/ InOrder(t) /\ LookupCNAME(t)
       \/ InOrder(t) /\ LookupMX(t)
       \/ InOrder(t) /\ LookupTXT(t)
       \/ InOrder(t) /\ LookupNS(t)
       \/ InOrder(t) /\ PutLock(t)
       \/ InOrder(t) /\ PutStore(t)
       \/ InOrder(t) /\ PrintDone(t)

SpecSeq == Init /\ [][NextSeq]_vars

\* A file of one line, and a Lookup Service free to answer every lookup.
InitOne ==
  /\ lines \in Files(MaxLines)
  /\ Len(lines) = 1
  /\ answers = Cardinality(Categories)
  /\ InitTasks

SpecOne == InitOne /\ [][Next]_vars

\* The scheduler runs every goroutine that can take a step, and the mutex
\* is handed to a goroutine that waits for it; nothing makes a lookup return.
Local(t) == GetLock(t) \/ GetRead(t) \/ PutLock(t) \/ PutStore(t) \/ PrintDone(t)

Fairness ==
  /\ WF_vars(Batch)
  /\ \A t \in Tasks : WF_vars(Local(t))

\* For the liveness properties: a Lookup Service that answers no lookup
\* (each one fails, or never returns).
InitLive ==
  /\ lines \in Files(MaxLines)
  /\ answers = 0
  /\ InitTasks

SpecLive == InitLive /\ [][Next]_vars /\ Fairness

\* ------------------------------------------------------------------- main

\* The command lines of the model: no argument; a domain; a domain with
\* --server; a host name without a dot; an IPv6 address; an IPv4-mapped IPv6
\* address, which has both ':' and '.'; a file without and with a dot in its
\* name, followed by --file; --file followed by the file.
ArgLists ==
  { <<"dns-resolver">>,
    <<"dns-resolver", "xn--bcher-kva.de">>,
    <<"dns-resolver", "xn--bcher-kva.de", "--server", "192.0.2.53">>,
    <<"dns-resolver", "localhost">>,
    <<"dns-resolver", "2001:db8::1">>,
    <<"dns-resolver", "::ffff:192.0.2.1">>,
    <<"dns-resolver", "domains", "--file">>,
    <<"dns-resolver", "domains.txt", "--file">>,
    <<"dns-resolver", "--file", "domains.txt">> }

\* strings.Contains(s, sub) for sub "." and ":" on the arguments of the model.
Contains(s, sub) ==
  CASE sub = "." -> s \in {"xn--bcher-kva.de", "192.0.2.53", "::ffff:192.0.2.1",
                           "domains.txt"}
    [] sub = ":" -> s \in {"2001:db8::1", "::ffff:192.0.2.1"}
    [] OTHER     -> FALSE

\* What net.LookupAddr may return when it does not fail.
AddrValues == {<<>>, <<"host.example.com.">>}

\* main up to the call its switch selects; the first case that holds is taken.
\* The forward resolution runs resolveDNS in the main goroutine (goroutine 1
\* of the model).
Main ==
  /\ mainPc = "main"
  /\ LET n == Cardinality(DOMAIN args)
     IN  IF n < 2
         THEN /\ mainPc' = "usage"
              /\ UNCHANGED <<coPc, pc, domain>>
         ELSE LET arg == args[1]
              IN  IF Contains(arg, ".")
                  THEN IF n = 4 /\ args[2] = "--server"
                       THEN /\ mainPc' = "soon"
                            /\ UNCHANGED <<coPc, pc, domain>>
                       ELSE /\ mainPc' = "resolveDNS"
                            /\ pc' = [pc EXCEPT ![1] = "resolveDNS"]
                            /\ domain' = [domain EXCEPT ![1] = arg]
                            /\ UNCHANGED coPc
                  ELSE IF Contains(arg, ":")
                  THEN /\ mainPc' = "reverseDNS"
                       /\ UNCHANGED <<coPc, pc, domain>>
                  ELSE IF n = 3 /\ args[2] = "--file"
                  THEN /\ mainPc' = "resolveBatch"
                       /\ coPc' = "open"
                       /\ UNCHANGED <<pc, domain>>
                  ELSE /\ mainPc' = "invalid"
                       /\ UNCHANGED <<coPc, pc, domain>>
  /\ UNCHANGED <<lines, scanned, wg, now, dnsCache, cacheMutex, answers,
                 records, found, ret, reply, calls, lastPut,
                 args, addrReply, addrCalls, hosts, saVars>>

\* printRecords in main, after resolveDNS has returned there.
MainPrint(t) ==
  /\ mainPc = "resolveDNS"
  /\ pc[t] = "printRecords"
  /\ pc' = [pc EXCEPT ![t] = "done"]
  /\ UNCHANGED <<lines, coPc, scanned, wg, now, dnsCache, cacheMutex, answers,
                 domain, records, found, ret, reply, calls, lastPut, mainVars>>

\* Mutant of ReverseDNS: the host names are put into dnsCache under the IP.
ReverseDNSCached ==
  /\ mainPc = "reverseDNS"
  /\ addrReply = Pending
  /\ \E r \in Replies(AddrValues) :
       /\ addrReply' = r
       /\ addrCalls' = addrCalls + 1
       /\ answers' = IF IsErr(r) THEN answers ELSE answers - 1
       /\ hosts' = IF IsErr(r) THEN hosts ELSE hosts \o r.val
       /\ dnsCache' = IF IsErr(r) THEN dnsCache
                      ELSE Store(dnsCache, args[1], NewEntry([PTR |-> r.val], now))
  /\ UNCHANGED <<lines, coPc, scanned, wg, now, cacheMutex,
                 pc, domain, records, found, ret, reply, calls, lastPut,
                 args, mainPc, saVars>>

\* reverseDNS(os.Args[1]): one net.LookupAddr; on an error it returns, else
\* it prints every host name.
ReverseDNS ==
  /\ mainPc = "reverseDNS"
  /\ addrReply = Pending
  /\ \E r \in Replies(AddrValues) :
       /\ addrReply' = r
       /\ addrCalls' = addrCalls + 1
       /\ answers' = IF IsErr(r) THEN answers ELSE answers - 1
       /\ hosts' = IF IsErr(r) THEN hosts ELSE hosts \o r.val
  /\ UNCHANGED <<lines, coPc, scanned, wg, now, dnsCache, cacheMutex,
                 pc, domain, records, found, ret, reply, calls, lastPut,
                 args, mainPc, saVars>>

\* The program from its start: any command line of the model, and a file of
\* at most one line behind the path.
InitMain ==
  /\ args \in {OsArgs(a) : a \in ArgLists}
  /\ lines \in Files(MaxLines)
  /\ Len(lines) <= 1
  /\ answers = MaxAnswers
  /\ mainPc = "main"
  /\ coPc = "notcalled"
  /\ InitResolver

NextMain ==
  \/ Main
  \/ ReverseDNS
  \/ Batch
  \/ Tick
  \/ \E t \in Tasks : Step(t)
  \/ \E t \in Tasks : MainPrint(t)

SpecMain == InitMain /\ [][NextMain]_vars

\* ---------------------------------------------- src/main.go, the standalone
\* ---------------------------------------------- resolver

\* The addresses of ips that are / are not IPv4, in their order.
RECURSIVE SelectIPs(_, _)
SelectIPs(ips, v4) ==
  IF ips = <<>> THEN <<>>
  ELSE IF To4(Head(ips)) = v4
       THEN <<Head(ips)>> \o SelectIPs(Tail(ips), v4)
       ELSE SelectIPs(Tail(ips), v4)

\* The lines the loop over mxRecords prints.
RECURSIVE PrintMX(_)
PrintMX(mxs) ==
  IF mxs = <<>> THEN <<>> ELSE <<FormatMX(Head(mxs))>> \o PrintMX(Tail(mxs))

\* The steps of the standalone resolver leave the caching resolver alone.
SaFrame ==
  UNCHANGED <<lines, coPc, scanned, wg, now, dnsCache, cacheMutex,
              pc, domain, records, found, ret, reply, calls, lastPut,
              args, mainPc, addrReply, addrCalls, hosts>>

\* main of src/main.go: os.Exit(1) without an argument, else resolveDNS.
SaMain ==
  /\ saPc = "main"
  /\ saPc' = IF Cardinality(DOMAIN args) < 2 THEN "exit" ELSE "LookupIP"
  /\ UNCHANGED <<answers, saReply, saOut>>
  /\ SaFrame

\* net.LookupIP: on an error resolveDNS returns; else it prints the IPv4
\* addresses, then the others.
SaLookupIP ==
  /\ saPc = "LookupIP"
  /\ \E r \in Replies(IPValues) :
       /\ saReply' = [saReply EXCEPT !["IP"] = r]
       /\ answers' = IF IsErr(r) THEN answers ELSE answers - 1
       /\ IF IsErr(r)
          THEN /\ saPc' = "returned"
               /\ UNCHANGED saOut
          ELSE /\ saPc' = "LookupCNAME"
               /\ saOut' = saOut \o SelectIPs(r.val, TRUE) \o SelectIPs(r.val, FALSE)
  /\ SaFrame

\* net.LookupCNAME: the error or the name is printed.
SaLookupCNAME ==
  /\ saPc = "LookupCNAME"
  /\ \E r \in Replies(CNAMEValues) :
       /\ saReply' = [saReply EXCEPT !["CNAME"] = r]
       /\ answers' = IF IsErr(r) THEN answers ELSE answers - 1
       /\ saOut' = IF IsErr(r) THEN saOut ELSE Append(saOut, r.val)
  /\ saPc' = "LookupMX"
  /\ SaFrame

\* net.LookupMX: the error or the records are printed, and resolveDNS returns.
SaLookupMX ==
  /\ saPc = "LookupMX"
  /\ \E r \in Replies(MXValues) :
       /\ saReply' = [saReply EXCEPT !["MX"] = r]
       /\ answers' = IF IsErr(r) THEN answers ELSE answers - 1
       /\ saOut' = IF IsErr(r) THEN saOut ELSE saOut \o PrintMX(r.val)
  /\ saPc' = "returned"
  /\ SaFrame

\* The standalone program from its start, with a Lookup Service free to
\* answer its three lookups.
InitStandalone ==
  /\ args \in {OsArgs(a) : a \in ArgLists}
  /\ lines = <<>>
  /\ answers = Cardinality(SaCategories)
  /\ mainPc = "main"
  /\ coPc = "notcalled"
  /\ InitResolver

NextStandalone == SaMain \/ SaLookupIP \/ SaLookupCNAME \/ SaLookupMX

SpecStandalone == InitStandalone /\ [][NextStandalone]_vars

\* ------------------------------------------------------------ vocabulary

LookupPcs == {"LookupIP", "LookupCNAME", "LookupMX", "LookupTXT", "LookupNS"}

\* Goroutine t is inside a Lookup Service call.
InLookup(t) == pc[t] \in LookupPcs

\* resolveDNS has returned in goroutine t.
Returned(t) == pc[t] \in {"printRecords", "done"}

\* resolveDNS has returned in goroutine t after a miss (a lookup pass).
Missed(t) == Returned(t) /\ ~found[t]

\* Goroutine t takes the step that completes getCachedResult / cacheResult.
GetReadStep(t) == pc[t] = "getCachedResult" /\ pc'[t] # "getCachedResult"
PutStoreStep(t) == pc[t] = "cacheStore" /\ pc'[t] # "cacheStore"

\* The record-type keys a category writes.
KeysOf(c) == IF c = "IP" THEN {"A", "AAAA"} ELSE {c}

\* The Lookup Service failed / returned at least one value.
ReplyFailed(t, c) == reply[t][c] = Failed
ReplyValues(t, c) ==
  /\ reply[t][c].state = "ok"
  /\ c = "CNAME" \/ reply[t][c].val # <<>>

\* Every category was looked up once and failed / was looked up once.
AllFailed(t) == \A c \in Categories : ReplyFailed(t, c)
OnceEach(t) == \A c \in Categories : calls[t][c] = 1

\* Goroutine t is the call of resolveDNS that follows the call of t - 1, both
\* with the same normalized domain, and the call of t - 1 was a miss.
Second(t) ==
  /\ t - 1 \in Tasks
  /\ Missed(t - 1)
  /\ pc[t] \notin {"idle", "resolveDNS"}
  /\ domain[t] = domain[t - 1]

\* The expiry set by the latest cacheResult for domain d.
ExpiryOf(d) == lastPut[d].at + TTL

\* ------------------------------------------------------------------- C1

\* C1: under SpecSeq, when resolveDNS is called again with an input of the
\* same normalized form no later than the expiry the first call set, the
\* second call is a hit that returns the map the first call stored, and it
\* looks nothing up: each category was looked up once in the two calls.
C1_SecondCallIsPureHit ==
  /\ [][\A t \in Tasks :
          (GetReadStep(t) /\ Second(t) /\ now <= ExpiryOf(domain[t]))
            => /\ found'[t]
               /\ ret'[t] = ret[t - 1]
               /\ pc'[t] = "printRecords"]_vars
  /\ [](\A t \in Tasks :
          (Second(t) /\ found[t])
            => /\ calls[t] = NoCalls
               /\ \A c \in Categories : calls[t - 1][c] + calls[t][c] = 1)

\* Two different lines of one normalized form, resolved one after the other:
\* the second was a hit and returned the first one's records, which hold a key.
C1_Witness ==
  \E t \in Tasks :
    /\ Second(t)
    /\ pc[t] = "done"
    /\ found[t]
    /\ lines[t] # lines[t - 1]
    /\ ret[t] = ret[t - 1]
    /\ ret[t] # EmptyMap
    /\ calls[t] = NoCalls

\* ------------------------------------------------------------------- C2

\* C2: under SpecOne, whatever categories fail, resolveDNS makes all five
\* lookups and returns its records map, in which no key of a failed category
\* is present and a key of every category that returned values is present.
C2_PartialFailure ==
  \A t \in Tasks :
    Missed(t) =>
      /\ ret[t] = records[t]
      /\ ret[t] # Nil
      /\ \A c \in Categories :
           /\ reply[t][c] # Pending
           /\ ReplyFailed(t, c) => KeysOf(c) \cap DOMAIN ret[t] = {}
           /\ ReplyValues(t, c) => KeysOf(c) \cap DOMAIN ret[t] # {}

\* The MX lookup failed and the address lookup returned an address.
C2_Witness ==
  \E t \in Tasks :
    /\ pc[t] = "done"
    /\ Missed(t)
    /\ ReplyFailed(t, "MX")
    /\ ReplyValues(t, "IP")
    /\ "MX" \notin DOMAIN ret[t]
    /\ {"A", "AAAA"} \cap DOMAIN ret[t] # {}

\* ------------------------------------------------------------------- C3

\* C3: under SpecSeq, getCachedResult reports found exactly when an entry
\* for the domain was stored and the time is not after the time of that
\* cacheResult plus TTL, and then returns the stored records; after a miss
\* resolveDNS looks every category up once, and its cacheResult stores an
\* entry that expires TTL after that.
C3_LazyExpiry ==
  /\ [][\A t \in Tasks :
          GetReadStep(t) =>
            LET d == domain[t]
                fresh == d \in DOMAIN lastPut /\ now <= ExpiryOf(d)
            IN  /\ found'[t] <=> fresh
                /\ fresh => ret'[t] = records[lastPut[d].by]
                /\ ~fresh => pc'[t] = "LookupIP"]_vars
  /\ [](\A t \in Tasks : Missed(t) => OnceEach(t))
  /\ [][\A t \in Tasks :
          PutStoreStep(t) =>
            /\ domain[t] \in DOMAIN dnsCache'
            /\ dnsCache'[domain[t]].expiry = now + TTL]_vars

\* The second of two calls for one domain came after the first one's entry
\* had expired: it missed, looked every category up and stored a later expiry.
C3_Witness ==
  \E t \in Tasks :
    /\ Second(t)
    /\ Missed(t)
    /\ OnceEach(t)
    /\ lastPut[domain[t]].by = t
    /\ dnsCache[domain[t]].expiry > TTL

\* ------------------------------------------------------------------- C4

\* C4: resolveBatch has started one goroutine per line the scanner returned,
\* the WaitGroup counts the goroutines that have not finished, and
\* resolveBatch has returned only if every goroutine it started is done
\* (resolveDNS and printRecords both over).
C4_JoinAfterAll ==
  /\ scanned <= Len(lines)
  /\ \A t \in Tasks : pc[t] # "idle" <=> t <= scanned
  /\ \A t \in Tasks : pc[t] = "resolveDNS" => domain[t] = lines[t]
  /\ wg = Cardinality({t \in Tasks : pc[t] \notin {"idle", "done"}})
  /\ coPc = "returned" => \A t \in 1..scanned : pc[t] = "done"

\* resolveBatch returned after a file of two blank lines.
C4_Witness ==
  /\ coPc = "returned"
  /\ scanned >= 2
  /\ lines[1] = ""
  /\ lines[2] = ""
  /\ \A t \in 1..scanned : pc[t] = "done"

\* ------------------------------------------------------------------- C5

\* C5: under SpecLive, a goroutine holds cacheMutex exactly while it is
\* inside getCachedResult or cacheResult (so at most one is, none holds it
\* during a lookup or after the function returned), every step that reads
\* or writes dnsCache is taken by the holder, which then releases the mutex,
\* and a goroutine that waits for the mutex gets it.
C5_MutexDiscipline ==
  /\ [](\A t \in Tasks :
          cacheMutex = t <=> pc[t] \in {"getCachedResult", "cacheStore"})
  /\ [](cacheMutex \in Tasks \cup {0})
  /\ [][\A t \in Tasks :
          (GetReadStep(t) \/ PutStoreStep(t))
            => cacheMutex = t /\ cacheMutex' = 0]_vars
  /\ [][dnsCache' # dnsCache => cacheMutex # 0]_vars
  /\ \A t \in Tasks :
       (pc[t] \in {"resolveDNS", "cacheResult"}) ~> (cacheMutex = t)

\* One goroutine is inside cacheResult with the mutex while another one,
\* its lookups made, waits for the mutex.
C5_Witness ==
  \E t, u \in Tasks :
    /\ t # u
    /\ cacheMutex = t
    /\ pc[t] = "cacheStore"
    /\ pc[u] = "cacheResult"

\* ------------------------------------------------------------------- C6

\* C6: in every map resolveDNS returned and in every entry of dnsCache, no
\* key maps to an empty sequence.
C6_NoEmptySequence ==
  /\ \A t \in Tasks :
       Returned(t) => \A k \in DOMAIN ret[t] : ret[t][k] # <<>>
  /\ \A d \in DOMAIN dnsCache :
       \A k \in DOMAIN dnsCache[d].records : dnsCache[d].records[k] # <<>>

\* ------------------------------------------------------------------- C7

\* C7: under SpecSeq, the cacheResult that ends a miss stores the records
\* map of the pass under the normalized domain; when every category failed
\* that map is empty, and the next call for the domain, no later than the
\* expiry, is a hit that returns the empty map and looks nothing up.
C7_FailedPassIsCached ==
  /\ [][\A t \in Tasks :
          PutStoreStep(t) =>
            /\ domain[t] \in DOMAIN dnsCache'
            /\ dnsCache'[domain[t]].records = records[t]]_vars
  /\ [](\A t \in Tasks :
          Missed(t) => /\ domain[t] \in DOMAIN dnsCache
                       /\ lines[t] = "b{fc}cher.de"
                            => "xn--bcher-kva.de" \in DOMAIN dnsCache
                       /\ AllFailed(t) => ret[t] = EmptyMap)
  /\ [][\A t \in Tasks :
          (GetReadStep(t) /\ Second(t) /\ AllFailed(t - 1)
             /\ now <= ExpiryOf(domain[t]))
            => /\ found'[t]
               /\ ret'[t] = EmptyMap
               /\ pc'[t] = "printRecords"]_vars
  /\ [](\A t \in Tasks : found[t] => calls[t] = NoCalls)

\* Every category failed in the first call, and the second call was a hit
\* that returned the empty map without a lookup.
C7_Witness ==
  \E t \in Tasks :
    /\ Second(t)
    /\ AllFailed(t - 1)
    /\ dnsCache[domain[t]].records = EmptyMap
    /\ pc[t] = "done"
    /\ found[t]
    /\ ret[t] = EmptyMap
    /\ calls[t] = NoCalls

\* ------------------------------------------------------------------- C8

\* C8: in a batch, a goroutine whose lookups all return finishes once it has
\* been started, whatever lookup of another goroutine hangs; resolveBatch
\* never returns when the lookup of some goroutine hangs for ever; and once
\* it has opened its file it returns when every lookup returns.
C8_HangStallsOnlyItsTask ==
  /\ \A t \in Tasks :
       ([]<>(~InLookup(t))) => ((pc[t] # "idle") ~> (pc[t] = "done"))
  /\ \A t \in Tasks : (<>[]InLookup(t)) => [](coPc # "returned")
  /\ (\A t \in Tasks : []<>(~InLookup(t)))
       => ((coPc = "scan") ~> (coPc = "returned"))

\* Two goroutines are started; the first one is in its address lookup (which
\* may never return) and the second one is done.
C8_Witness ==
  \E t, u \in Tasks :
    /\ t # u
    /\ pc[t] = "LookupIP"
    /\ pc[u] = "done"
    /\ coPc = "wait"

\* ------------------------------------------------------------------- C9

\* C9: dnsCache holds an entry for exactly the domains cacheResult was run
\* for, and each entry is the records map and the expiry of the goroutine
\* that ran cacheResult for the domain last.
C9_LastPutWins ==
  /\ DOMAIN dnsCache = DOMAIN lastPut
  /\ \A d \in DOMAIN lastPut :
       /\ d \in DOMAIN dnsCache
       /\ dnsCache[d] = [records |-> records[lastPut[d].by], expiry |-> ExpiryOf(d)]

\* With the clock still at 0 (no entry can have expired), two goroutines
\* for one domain both missed and both made all five lookups; their records
\* differ and the cache holds those of the one that stored last.
C9_Witness ==
  \E t, u \in Tasks :
    /\ t # u
    /\ now = 0
    /\ pc[t] = "done" /\ pc[u] = "done"
    /\ Missed(t) /\ Missed(u)
    /\ OnceEach(t) /\ OnceEach(u)
    /\ domain[t] = domain[u]
    /\ records[t] # records[u]
    /\ lastPut[domain[t]].by = u
    /\ dnsCache[domain[t]].records = records[u]

\* ------------------------------------------------------------------- C10

\* C10: no step removes a key of dnsCache, and a step that changes dnsCache
\* is the cacheResult of a goroutine that has made its five lookups, which
\* changes the entry of its own domain only.
C10_NoEviction ==
  [][/\ DOMAIN dnsCache \subseteq DOMAIN dnsCache'
     /\ dnsCache' # dnsCache =>
          \E t \in Tasks :
            /\ PutStoreStep(t)
            /\ OnceEach(t)
            /\ \A d \in (DOMAIN dnsCache) \ {domain[t]} :
                 dnsCache'[d] = dnsCache[d]]_vars

\* An entry that has expired is still in the map.
C10_Witness ==
  \E d \in DOMAIN dnsCache : now > dnsCache[d].expiry

\* ------------------------------------------------------------------- C11

\* C11: under SpecSeq, for a line idna.ToASCII rejects ("xn--{fc}.de"),
\* resolveDNS works on the line as it was read: its domain variable keeps the
\* input, no goroutine ever works on the string ToASCII returned with the
\* error, and a call that missed has looked every category up once and stored
\* its records map under the input itself.
C11_RejectedInputIsKept ==
  /\ \A t \in Tasks :
       (pc[t] # "idle" /\ lines[t] = "xn--{fc}.de") =>
         /\ domain[t] = "xn--{fc}.de"
         /\ pc[t] \in {"resolveDNS", "getCachedResult", "cacheResult",
                       "cacheStore", "printRecords", "done"} \cup LookupPcs
         /\ Missed(t) =>
              /\ OnceEach(t)
              /\ "xn--{fc}.de" \in DOMAIN dnsCache
              /\ lastPut["xn--{fc}.de"].at + TTL = dnsCache["xn--{fc}.de"].expiry
         /\ (Returned(t) /\ found[t]) => "xn--{fc}.de" \in DOMAIN dnsCache
  /\ "xn--xn---eoa.de" \notin DOMAIN dnsCache

\* The rejected name was resolved: a miss, five lookups of which one returned
\* values, and the records are cached under the name as it was read.
C11_Witness ==
  \E t \in DOMAIN lines :
    /\ lines[t] = "xn--{fc}.de"
    /\ pc[t] = "done"
    /\ Missed(t)
    /\ OnceEach(t)
    /\ ret[t] # EmptyMap
    /\ "xn--{fc}.de" \in DOMAIN dnsCache
    /\ dnsCache["xn--{fc}.de"].records = ret[t]

\* ------------------------------------------------------------------- C12

\* The scanner stopped before the last line of the file: scanner.Scan()
\* returned false on a read error (scanner.Err() is then not nil).
ScannerFailed == coPc \in {"wait", "returned"} /\ scanned < Len(lines)

\* C12: whenever reading the batch input has failed (os.Open failed, or the
\* scanner stopped on a read error), the process has been ended by
\* log.Fatalf, and no goroutine of the batch has returned from resolveDNS or
\* printed its records.
C12_InputFailureIsFatal ==
  (coPc = "fatal" \/ ScannerFailed) =>
    /\ coPc = "fatal"
    /\ \A t \in Tasks : ~Returned(t)

\* ------------------------------------------------------------------- C13

\* reverseDNS's lookup returns in this step.
ReverseStep == mainPc = "reverseDNS" /\ addrReply = Pending /\ addrReply' # Pending

\* C13: under SpecMain, the step in which reverseDNS's lookup returns is its
\* only Lookup Service call and leaves dnsCache, cacheMutex and the forward
\* lookups as they were; a run that took the reverseDNS branch never has an
\* entry in dnsCache nor a forward lookup; after a failed lookup no host name
\* has been printed and main has returned; after a successful one the host
\* names printed are the ones the lookup returned.
C13_ReverseLookupFrame ==
  /\ [][ReverseStep =>
          /\ dnsCache' = dnsCache
          /\ cacheMutex' = cacheMutex
          /\ lastPut' = lastPut
          /\ addrCalls' = addrCalls + 1
          /\ UNCHANGED <<calls, reply, pc, records>>]_vars
  /\ [](mainPc = "reverseDNS" =>
          /\ dnsCache = EmptyMap
          /\ cacheMutex = 0
          /\ addrCalls = IF addrReply = Pending THEN 0 ELSE 1
          /\ \A t \in Tasks : calls[t] = NoCalls /\ pc[t] = "idle")
  /\ [](addrReply = Failed => hosts = <<>> /\ MainReturned)
  /\ [](addrReply.state = "ok" => hosts = addrReply.val /\ MainReturned)

\* The reverse lookup of an IPv6 address failed: one call, no host name, an
\* empty cache, and main has returned.
C13_Witness ==
  /\ mainPc = "reverseDNS"
  /\ args[1] = "2001:db8::1"
  /\ addrReply = Failed
  /\ addrCalls = 1
  /\ hosts = <<>>
  /\ dnsCache = EmptyMap
  /\ MainReturned

\* ------------------------------------------------------------------- C14

\* C14: under SpecMain, once main has taken its switch on a first argument
\* that contains ':', it is in the reverseDNS branch, and no goroutine has
\* entered resolveDNS.
C14_ColonMeansReverse ==
  (mainPc # "main" /\ 1 \in DOMAIN args /\ Contains(args[1], ":")) =>
    /\ mainPc = "reverseDNS"
    /\ \A t \in Tasks : pc[t] = "idle"

\* ------------------------------------------------------------------- C15

\* C15: under SpecMain, once main has taken its switch on a command line of a
\* file path followed by --file, it is in the resolveBatch branch (resolveBatch
\* has been called), whatever the path is.
C15_FileFlagMeansBatch ==
  (mainPc # "main" /\ Cardinality(DOMAIN args) = 3 /\ args[2] = "--file") =>
    /\ mainPc = "resolveBatch"
    /\ coPc # "notcalled"

\* ------------------------------------------------------------------- C16

\* The order in which resolveDNS makes its lookups.
LookupOrder == <<"IP", "CNAME", "MX", "TXT", "NS">>

\* The lookups the position of goroutine t says it has behind it.
Made(t) ==
  CASE pc[t] = "LookupCNAME" -> 1
    [] pc[t] = "LookupMX"    -> 2
    [] pc[t] = "LookupTXT"   -> 3
    [] pc[t] = "LookupNS"    -> 4
    [] pc[t] \in {"cacheResult", "cacheStore"} \/ Missed(t) -> 5
    [] OTHER -> 0

\* C16: under SpecOne, whatever the lookups reply, a goroutine that missed
\* has made its lookups in the order address, CNAME, MX, TXT, NS, each one
\* once: the first Made(t) of them have a reply and one call, the others no
\* reply and no call; it is in cacheResult only with all five behind it, and
\* the step that stores its entry is taken after the NS lookup has replied.
C16_FiveLookupsInOrder ==
  /\ [](\A t \in Tasks : \A i \in DOMAIN LookupOrder :
          LET c == LookupOrder[i]
          IN  /\ calls[t][c] = IF i <= Made(t) THEN 1 ELSE 0
              /\ reply[t][c] # Pending <=> i <= Made(t))
  /\ [][\A t \in Tasks :
          PutStoreStep(t) => /\ OnceEach(t)
                             /\ reply[t]["NS"] # Pending
                             /\ UNCHANGED <<calls, reply>>]_vars

\* The address and the MX lookup failed, and still the NS lookup was made and
\* returned a name server before cacheResult.
C16_Witness ==
  \E t \in Tasks :
    /\ pc[t] = "cacheResult"
    /\ OnceEach(t)
    /\ ReplyFailed(t, "IP")
    /\ ReplyFailed(t, "MX")
    /\ ReplyValues(t, "NS")

\* ------------------------------------------------------------------- C17

\* The map m is what a finished pass of goroutine t built: every category has
\* its reply, a failed one left no key and one with values left its key.
CompletePass(t, m) ==
  /\ Missed(t)
  /\ OnceEach(t)
  /\ m = ret[t]
  /\ \A c \in Categories :
       /\ reply[t][c] # Pending
       /\ ReplyFailed(t, c) => KeysOf(c) \cap DOMAIN m = {}
       /\ ReplyValues(t, c) => KeysOf(c) \cap DOMAIN m # {}

\* C17: every entry of dnsCache holds the map of one finished five-lookup
\* pass for its domain; an entry changes only in the cacheResult of a
\* goroutine for that domain, which puts its own finished map in its place;
\* and the map of a goroutine that has returned is never changed again.
C17_NoTornRecordSet ==
  /\ [](\A d \in DOMAIN dnsCache :
          \E t \in Tasks : domain[t] = d /\ CompletePass(t, dnsCache[d].records))
  /\ [][\A d \in DOMAIN dnsCache' :
          (d \notin DOMAIN dnsCache \/ dnsCache'[d] # dnsCache[d]) =>
            \E t \in Tasks :
              /\ PutStoreStep(t)
              /\ domain[t] = d
              /\ OnceEach(t)
              /\ dnsCache'[d].records = records[t]]_vars
  /\ [][\A t \in Tasks :
          Returned(t) => records'[t] = records[t] /\ ret'[t] = ret[t]]_vars

\* The cache holds the finished (empty) map of one goroutine while another
\* goroutine for the same domain is between two lookups with a map that
\* already has a key.
C17_Witness ==
  \E t, u \in Tasks :
    /\ t # u
    /\ domain[t] = domain[u]
    /\ domain[t] \in DOMAIN dnsCache
    /\ CompletePass(t, dnsCache[domain[t]].records)
    /\ InLookup(u)
    /\ records[u] # EmptyMap
    /\ records[u] # dnsCache[domain[t]].records

\* ------------------------------------------------------------------- C18

\* C18: under SpecStandalone, when resolveDNS of src/main.go has returned
\* after a failed address lookup, it has made the CNAME and the MX lookup.
C18_AddressFailureNotFatal ==
  (saPc = "returned" /\ saReply["IP"] = Failed) =>
    /\ saReply["CNAME"] # Pending
    /\ saReply["MX"] # Pending

\* ------------------------------------------------------------------- C19

\* C19: the step in which getCachedResult reports a hit leaves dnsCache as it
\* was, and the expiry of every entry stays TTL after the cacheResult that
\* wrote it, whatever reads came since.
C19_HitLeavesCache ==
  /\ [][\A t \in Tasks :
          (GetReadStep(t) /\ found'[t]) =>
            /\ dnsCache' = dnsCache
            /\ dnsCache'[domain[t]].expiry = ExpiryOf(domain[t])]_vars
  /\ [](\A d \in DOMAIN dnsCache : dnsCache[d].expiry = ExpiryOf(d))

\* An entry written at time 0 was read, a hit, and later than its writing it
\* still expires at TTL.
C19_Witness ==
  \E t \in Tasks :
    /\ Returned(t)
    /\ found[t]
    /\ lastPut[domain[t]].at = 0
    /\ now > 0
    /\ dnsCache[domain[t]].expiry = TTL
    /\ dnsCache[domain[t]].records = ret[t]

====
